---- MODULE Spec2Model ----
(***************************************************************************)
(* WhatsAppClient (src/pipecat/utils/whatsapp/client.py): the call map     *)
(* _ongoing_calls_map, the connect and terminate webhook handlers and      *)
(* terminate_all_calls, as coroutines of one asyncio event loop.  A step   *)
(* of the model is the code a coroutine runs between two awaits.           *)
(*                                                                         *)
(* Every connect handler creates exactly one SmallWebRTCConnection         *)
(* (client.py:101), so a connection is named by the index of the handler   *)
(* that created it.  Handlers are numbered in the order they start.        *)
(***************************************************************************)
EXTENDS Integers, FiniteSets, Sequences, TLC

\* ------------------------------------------------------------------ bounds
MaxConnects == 2
MaxTerminates == 2
MaxSdpLines == 4
MaxPayloadItems == 6

\* ------------------------------------------------------------------ inputs
CallIds == {"abc", "xyz"}
Conns == 1..MaxConnects
Terms == 1..MaxTerminates
None == 0

\* What the Cloud API answers to POST /calls, as response.json() gives it.
Responses == {[success |-> TRUE], [success |-> FALSE], [error |-> "rejected"]}
NoResponse == [pending |-> TRUE]

\* ------------------------------------------------ _filter_sdp_for_whatsapp
\* A str is a sequence of tokens: the line boundary characters "\r" and
\* "\n", and chunks of text without a line boundary.  A token is the tuple
\* of its fields, so that startswith() is a comparison of leading fields.
CR == <<"\r">>
LF == <<"\n">>
CRLF == <<CR, LF>>
Boundaries == {CR, LF}
Fingerprint(hash) == <<"a=fingerprint:", hash, " 4A:AD:B9:B1">>
Chunks == {<<"v=0">>, <<"a=setup:active">>,
           Fingerprint("sha-256"), Fingerprint("sha-384"), Fingerprint("sha-512")}

\* line.startswith("a=fingerprint:")
StartsWithFingerprint(line) ==
    /\ Len(line) > 0
    /\ line[1][1] = "a=fingerprint:"

\* line.startswith("a=fingerprint:sha-256")
StartsWithSha256(line) ==
    /\ StartsWithFingerprint(line)
    /\ Len(line[1]) > 1
    /\ line[1][2] = "sha-256"

\* Mutant: the exception for sha-256 forgotten, every fingerprint line goes.
DroppedAnyFingerprint(line) == StartsWithFingerprint(line)

\* Line 92: the lines the loop skips.
Dropped(line) == StartsWithFingerprint(line) /\ ~StartsWithSha256(line)

\* Mutant: sdp.split("\r\n"), which keeps the empty string after the last
\* terminator and does not split at a lone "\r" or "\n".
RECURSIVE SplitAtCrlf(_, _, _, _)
SplitAtCrlf(s, i, cur, acc) ==
    IF i > Len(s) THEN Append(acc, cur)
    ELSE IF s[i] = CR /\ i < Len(s) /\ s[i + 1] = LF
         THEN SplitAtCrlf(s, i + 2, <<>>, Append(acc, cur))
         ELSE SplitAtCrlf(s, i + 1, Append(cur, s[i]), acc)

SplitOnCrlfOnly(s) == SplitAtCrlf(s, 1, <<>>, <<>>)

\* str.splitlines(): "\r\n", "\r" and "\n" each end a line; the text after
\* the last boundary is a line only if it is not empty.
RECURSIVE SplitFrom(_, _, _, _)
SplitFrom(s, i, cur, acc) ==
    IF i > Len(s) THEN (IF cur = <<>> THEN acc ELSE Append(acc, cur))
    ELSE IF s[i] = CR /\ i < Len(s) /\ s[i + 1] = LF
         THEN SplitFrom(s, i + 2, <<>>, Append(acc, cur))
         ELSE IF s[i] \in Boundaries
              THEN SplitFrom(s, i + 1, <<>>, Append(acc, cur))
              ELSE SplitFrom(s, i + 1, Append(cur, s[i]), acc)

\* Line 89: sdp.splitlines()
SplitLines(s) == SplitFrom(s, 1, <<>>, <<>>)

\* Lines 90-94: the loop that builds filtered
RECURSIVE FilterLines(_)
FilterLines(lines) ==
    IF lines = <<>> THEN <<>>
    ELSE IF Dropped(Head(lines)) THEN FilterLines(Tail(lines))
         ELSE <<Head(lines)>> \o FilterLines(Tail(lines))

\* "\r\n".join(filtered)
RECURSIVE JoinCrlf(_)
JoinCrlf(lines) ==
    IF lines = <<>> THEN <<>>
    ELSE IF Len(lines) = 1 THEN Head(lines)
         ELSE Head(lines) \o CRLF \o JoinCrlf(Tail(lines))

\* Lines 88-95
FilterSdpForWhatsapp(sdp) == JoinCrlf(FilterLines(SplitLines(sdp))) \o CRLF

\* The answers the filter is applied to: up to MaxSdpLines lines, each empty
\* or one chunk, written with one of the separators and with or without a
\* terminator after the last line.
SdpLineTexts == {<<>>} \cup {<<k>> : k \in Chunks}
SdpLineSeqs == UNION {[1..n -> SdpLineTexts] : n \in 0..MaxSdpLines}
SdpStyles == [sep : {CRLF, <<LF>>, <<CR>>}, trailing : BOOLEAN]
RECURSIVE Serialize(_, _)
Serialize(lines, style) ==
    IF lines = <<>> THEN <<>>
    ELSE IF Len(lines) = 1
         THEN Head(lines) \o (IF style.trailing THEN style.sep ELSE <<>>)
         ELSE Head(lines) \o style.sep \o Serialize(Tail(lines), style)
NoSdp == <<<<"none">>>>

\* ------------------------------------------------- WhatsAppWebhookRequest
\* The decoded request (api.py:86-98): request.entry is a list of entries,
\* entry.changes a list of changes, change.value a connect value or a
\* terminate value, value.calls a list of calls, call.event a str.
ValueTypes == {"WhatsAppConnectCallValue", "WhatsAppTerminateCallValue"}
Events == {"connect", "terminate"}

\* A payload lists its entries, changes and calls in document order.
PayloadItems ==
    {[kind |-> "entry", tag |-> "none"]}
        \cup {[kind |-> "change", tag |-> v] : v \in ValueTypes}
        \cup {[kind |-> "call", tag |-> e] : e \in Events}
\* A change lies in an entry and a call in a change.
WellFormed(items) ==
    \A i \in 1..Len(items) :
        /\ i = 1 => items[i].kind = "entry"
        /\ (i > 1 /\ items[i].kind = "call") => items[i - 1].kind \in {"change", "call"}
Payloads ==
    {items \in UNION {[1..n -> PayloadItems] : n \in 0..MaxPayloadItems} : WellFormed(items)}

AddItem(entries, item) ==
    IF item.kind = "entry" THEN Append(entries, [changes |-> <<>>])
    ELSE LET e == Len(entries) IN
         IF item.kind = "change"
         THEN [entries EXCEPT ![e].changes =
                  Append(@, [value |-> [type |-> item.tag, calls |-> <<>>]])]
         ELSE LET c == Len(entries[e].changes) IN
              [entries EXCEPT ![e].changes[c].value.calls =
                  Append(@, [event |-> item.tag])]
RECURSIVE ParseFrom(_, _, _)
ParseFrom(items, i, entries) ==
    IF i > Len(items) THEN entries
    ELSE ParseFrom(items, i + 1, AddItem(entries, items[i]))
ParseRequest(items) == [entry |-> ParseFrom(items, 1, <<>>)]

VARIABLES
    ongoing_calls_map,  \* call id -> connection, None where the key is absent
    connPc,             \* per connect handler: the await it is suspended at
    connCall,           \* per connect handler: call.id
    connBefore,         \* per connect handler: the map's entry for call.id
                        \* when the handler started
    preResp,            \* per connect handler: pre_accept_resp
    accResp,            \* per connect handler: accept_resp
    connSdp,            \* per connect handler: sdp_answer
    disconnects,        \* per connection: number of disconnect() invocations
    apiCalls,           \* requests issued through WhatsAppApi
    termPc,             \* per terminate handler: the await it is suspended at
    termCall,           \* per terminate handler: call.id
    termConn,           \* per terminate handler: local pipecat_connection
    termResult,         \* per terminate handler: the value returned
    taPc,               \* terminate_all_calls: where it is
    taEntries,          \* terminate_all_calls: the items() it iterated over
    taTasks,            \* terminate_all_calls: termination_tasks still pending
    taDisconnected,     \* terminate_all_calls: connections it disconnected
    taTerminated,       \* terminate_all_calls: call ids it asked the provider to end
    taFailed,           \* terminate_all_calls: tasks that ended in an exception
    closedLog,          \* connections whose "closed" handler has logged
    connStale,          \* history, kept under SpecRace: per connect handler,
                        \* a terminate handler for its call id has completed
                        \* since it started, and no connect handler started
                        \* after that has been accepted since
    sdpLines,           \* filter: the lines of the answer
    sdpStyle,           \* filter: how the answer is written
    sdpIn,              \* filter: the argument sdp
    sdpOut,             \* filter: the value returned for sdpIn
    sdpOut2,            \* filter: the value returned for sdpOut
    wbRequest,          \* handle_webhook_request: the argument request
    wbAt,               \* handle_webhook_request: indices of the three loops
    wbExamined,         \* handle_webhook_request: the calls it has looked at
    wbDispatched,       \* handle_webhook_request: the handlers it has called
    wbResult            \* handle_webhook_request: how it ended

connVars == <<connPc, connCall, connBefore, connSdp, preResp, accResp>>
termVars == <<termPc, termCall, termConn, termResult>>
taVars == <<taPc, taEntries, taTasks, taDisconnected, taTerminated, taFailed>>
sdpVars == <<sdpLines, sdpStyle, sdpIn, sdpOut, sdpOut2>>
wbVars == <<wbRequest, wbAt, wbExamined, wbDispatched, wbResult>>
auxVars == <<sdpVars, wbVars>>
clientVars == <<ongoing_calls_map, connVars, disconnects, apiCalls, termVars, taVars,
                closedLog, connStale>>
vars == <<clientVars, auxVars>>

\* ------------------------------------------------------ the call map (dict)
EmptyMap == [c \in CallIds |-> None]

\* Mutant: the membership test of line 144 dropped.
InRegistryAlways(m, c) == TRUE

\* call.id in self._ongoing_calls_map
InRegistry(m, c) == m[c] # None

\* self._ongoing_calls_map[call.id] = pipecat_connection
Register(m, c, s) == [m EXCEPT ![c] = s]

\* Mutant: line 148 missing, the entry stays after disconnect().
RegistryPopKeeps(m, c) == m

\* self._ongoing_calls_map.pop(call.id, None)
RegistryPop(m, c) == [m EXCEPT ![c] = None]

\* self._ongoing_calls_map.clear()
RegistryClear(m) == EmptyMap

\* self._ongoing_calls_map.items()
Items(m) == {<<c, m[c]>> : c \in {k \in CallIds : m[k] # None}}

\* not self._ongoing_calls_map
IsEmpty(m) == \A c \in CallIds : m[c] = None

\* ------------------------------------------------------------ WhatsAppApi
\* The methods class WhatsAppApi defines.
WhatsAppApiMethods == {"answer_call_to_whatsapp"}

\* Mutant: resp.get("success", True), a response without the key passes.
IsSuccessDefaultTrue(resp) == IF "success" \in DOMAIN resp THEN resp.success ELSE TRUE

\* resp.get("success", False)
IsSuccess(resp) == IF "success" \in DOMAIN resp THEN resp.success ELSE FALSE

\* answer_call_to_whatsapp(call_id, action, sdp, from_): the request posted
AnswerCall(calls, h, c, action, sdp) ==
    calls \cup {[method |-> "answer_call_to_whatsapp", conn |-> h,
                 call_id |-> c, action |-> action, sdp |-> sdp]}

\* ------------------------------------------------ SmallWebRTCConnection
\* await pipecat_connection.disconnect(): one more invocation on s
Disconnect(d, s) == [d EXCEPT ![s] = @ + 1]

\* pipecat_connection.get_answer().get("sdp"): the answer of connection s,
\* with a sha-256 fingerprint line and one for a stronger hash.
GetAnswer(s) ==
    Serialize(<<<<Fingerprint("sha-256")>>,
                <<Fingerprint(IF s % 2 = 1 THEN "sha-384" ELSE "sha-512")>>>>,
              [sep |-> CRLF, trailing |-> TRUE])

\* ------------------------------------------------- terminate, then connect
\* The awaits of _handle_connect_event before the registration.
InHandshake == {"initialize", "pre_accept", "accept"}

\* The value of the history where it is not kept.
NotObserved == <<>>

\* A terminate handler completes for c: the connect handlers for c that are
\* in their handshake started before it did.
TerminateCompleted(stale, c, pc, call) ==
    IF stale = NotObserved THEN stale
    ELSE [h \in Conns |-> stale[h] \/ (call[h] = c /\ pc[h] \in InHandshake)]

\* Connect handler h is accepted for c.  When it started after the last
\* terminate handler for c completed, c is no longer a terminated call.
ConnectAccepted(stale, c, h, call) ==
    IF stale = NotObserved \/ stale[h] THEN stale
    ELSE [g \in Conns |-> stale[g] /\ call[g] # c]

\* ------------------------------------------------------------------ Init
ClientInit ==
    /\ ongoing_calls_map = EmptyMap
    /\ connPc = [h \in Conns |-> "idle"]
    /\ connCall = [h \in Conns |-> "none"]
    /\ connBefore = [h \in Conns |-> None]
    /\ preResp = [h \in Conns |-> NoResponse]
    /\ accResp = [h \in Conns |-> NoResponse]
    /\ connSdp = [h \in Conns |-> NoSdp]
    /\ disconnects = [h \in Conns |-> 0]
    /\ apiCalls = {}
    /\ termPc = [t \in Terms |-> "idle"]
    /\ termCall = [t \in Terms |-> "none"]
    /\ termConn = [t \in Terms |-> None]
    /\ termResult = [t \in Terms |-> "none"]
    /\ taPc = "idle"
    /\ taEntries = {}
    /\ taTasks = {}
    /\ taDisconnected = {}
    /\ taTerminated = {}
    /\ taFailed = {}
    /\ closedLog = {}

HistoryOff == connStale = NotObserved

SdpIdle ==
    /\ sdpLines = <<>>
    /\ sdpStyle = [sep |-> CRLF, trailing |-> TRUE]
    /\ sdpIn = <<>>
    /\ sdpOut = NoSdp
    /\ sdpOut2 = NoSdp

WebhookIdle ==
    /\ wbRequest = ParseRequest(<<>>)
    /\ wbAt = <<1, 1, 1>>
    /\ wbExamined = {}
    /\ wbDispatched = <<>>
    /\ wbResult = "idle"

Init == ClientInit /\ HistoryOff /\ SdpIdle /\ WebhookIdle

\* -------------------------------------------------- _handle_connect_event
\* Lines 99-102: the handler starts, creates its connection and awaits
\* initialize().
ConnectStart(h, c) ==
    /\ connPc[h] = "idle"
    /\ \A g \in Conns : g < h => connPc[g] # "idle"
    /\ connPc' = [connPc EXCEPT ![h] = "initialize"]
    /\ connCall' = [connCall EXCEPT ![h] = c]
    /\ connBefore' = [connBefore EXCEPT ![h] = ongoing_calls_map[c]]
    /\ UNCHANGED <<ongoing_calls_map, connSdp, preResp, accResp, disconnects, apiCalls,
                   termVars, taVars>>
    /\ UNCHANGED <<closedLog, connStale, auxVars>>

\* Lines 102-108: initialize() returns, the answer is filtered and the
\* pre_accept request is posted.
ConnectInitialized(h) ==
    /\ connPc[h] = "initialize"
    /\ connSdp' = [connSdp EXCEPT ![h] = FilterSdpForWhatsapp(GetAnswer(h))]
    /\ connPc' = [connPc EXCEPT ![h] = "pre_accept"]
    /\ apiCalls' = AnswerCall(apiCalls, h, connCall[h], "pre_accept", connSdp'[h])
    /\ UNCHANGED <<ongoing_calls_map, connCall, connBefore, preResp, accResp, disconnects,
                   termVars, taVars>>
    /\ UNCHANGED <<closedLog, connStale, auxVars>>

\* Mutant: the pre_accept request is posted before initialize() is awaited,
\* so a failing initialize() leaves a gateway call behind.
ConnectInitFailsAfterPost(h) ==
    /\ connPc[h] = "initialize"
    /\ connPc' = [connPc EXCEPT ![h] = "raised_init"]
    /\ apiCalls' = AnswerCall(apiCalls, h, connCall[h], "pre_accept", NoSdp)
    /\ UNCHANGED <<ongoing_calls_map, connCall, connBefore, connSdp, preResp, accResp, disconnects,
                   termVars, taVars>>
    /\ UNCHANGED <<closedLog, connStale, auxVars>>

\* Line 102: initialize() raises; the exception leaves the handler.
ConnectInitFails(h) ==
    /\ connPc[h] = "initialize"
    /\ connPc' = [connPc EXCEPT ![h] = "raised_init"]
    /\ UNCHANGED <<ongoing_calls_map, connCall, connBefore, connSdp, preResp, accResp,
                   disconnects, apiCalls, termVars, taVars>>
    /\ UNCHANGED <<closedLog, connStale, auxVars>>

\* Lines 108-118: the pre_accept response arrives.
PreAcceptResponse(h, resp) ==
    /\ connPc[h] = "pre_accept"
    /\ preResp' = [preResp EXCEPT ![h] = resp]
    /\ IF ~IsSuccess(resp)
       THEN /\ disconnects' = Disconnect(disconnects, h)
            /\ connPc' = [connPc EXCEPT ![h] = "disconnect_pre"]
            /\ UNCHANGED apiCalls
       ELSE /\ apiCalls' = AnswerCall(apiCalls, h, connCall[h], "accept", connSdp[h])
            /\ connPc' = [connPc EXCEPT ![h] = "accept"]
            /\ UNCHANGED disconnects
    /\ UNCHANGED <<ongoing_calls_map, connCall, connBefore, connSdp, accResp, termVars, taVars>>
    /\ UNCHANGED <<closedLog, connStale, auxVars>>

\* Lines 118-135: the accept response arrives.
AcceptResponse(h, resp) ==
    /\ connPc[h] = "accept"
    /\ accResp' = [accResp EXCEPT ![h] = resp]
    /\ IF ~IsSuccess(resp)
       THEN /\ disconnects' = Disconnect(disconnects, h)
            /\ connPc' = [connPc EXCEPT ![h] = "disconnect_accept"]
            /\ UNCHANGED ongoing_calls_map
            /\ UNCHANGED connStale
       ELSE /\ ongoing_calls_map' = Register(ongoing_calls_map, connCall[h], h)
            /\ connPc' = [connPc EXCEPT ![h] = "returned"]
            /\ connStale' = ConnectAccepted(connStale, connCall[h], h, connCall)
            /\ UNCHANGED disconnects
    /\ UNCHANGED <<connCall, connBefore, connSdp, preResp, apiCalls, termVars, taVars>>
    /\ UNCHANGED <<closedLog, auxVars>>

\* Lines 113-114 and 123-124: disconnect() has returned, the handler raises.
ConnectRaise(h) ==
    /\ connPc[h] \in {"disconnect_pre", "disconnect_accept"}
    /\ connPc' = [connPc EXCEPT ![h] =
                    IF @ = "disconnect_pre" THEN "raised_pre" ELSE "raised_accept"]
    /\ UNCHANGED <<ongoing_calls_map, connCall, connBefore, connSdp, preResp, accResp,
                   disconnects, apiCalls, termVars, taVars>>
    /\ UNCHANGED <<closedLog, connStale, auxVars>>

\* Lines 108 and 118: the request itself raises (transport error, timeout,
\* a body that is not JSON); nothing catches it.
GatewayRaises(h) ==
    /\ connPc[h] \in {"pre_accept", "accept"}
    /\ connPc' = [connPc EXCEPT ![h] = "raised_gateway"]
    /\ UNCHANGED <<ongoing_calls_map, connCall, connBefore, connSdp, preResp, accResp,
                   disconnects, apiCalls, termVars, taVars>>
    /\ UNCHANGED <<closedLog, connStale, auxVars>>

\* Lines 131-133: the peer closes a connection whose handler is registered;
\* handle_disconnected logs.  The step changes nothing but the log, and is
\* taken under SpecRace.
PeerClosed(h) ==
    /\ connPc[h] = "returned"
    /\ h \notin closedLog
    /\ closedLog' = closedLog \cup {h}
    /\ UNCHANGED <<ongoing_calls_map, connVars, disconnects, apiCalls, termVars, taVars,
                   connStale, auxVars>>

\* ------------------------------------------------ _handle_terminate_event
TerminateAck == [status |-> "success", message |-> "Call termination handled"]

\* Lines 139-147, or 139-150 when the call id is not in the map.
TerminateStart(t, c) ==
    /\ termPc[t] = "idle"
    /\ \A u \in Terms : u < t => termPc[u] # "idle"
    /\ termCall' = [termCall EXCEPT ![t] = c]
    /\ IF InRegistry(ongoing_calls_map, c)
       THEN /\ termConn' = [termConn EXCEPT ![t] = ongoing_calls_map[c]]
            /\ disconnects' = Disconnect(disconnects, ongoing_calls_map[c])
            /\ termPc' = [termPc EXCEPT ![t] = "disconnect"]
            /\ UNCHANGED <<termResult, connStale>>
       ELSE /\ termPc' = [termPc EXCEPT ![t] = "returned"]
            /\ termResult' = [termResult EXCEPT ![t] = TerminateAck.status]
            /\ connStale' = TerminateCompleted(connStale, c, connPc, connCall)
            /\ UNCHANGED <<termConn, disconnects>>
    /\ UNCHANGED <<ongoing_calls_map, connVars, apiCalls, taVars>>
    /\ UNCHANGED <<closedLog, auxVars>>

\* Mutant: the handler also asks the provider to end the call after the pop.
TerminateFinishCallsGateway(t) ==
    /\ termPc[t] = "disconnect"
    /\ ongoing_calls_map' = RegistryPop(ongoing_calls_map, termCall[t])
    /\ termPc' = [termPc EXCEPT ![t] = "returned"]
    /\ termResult' = [termResult EXCEPT ![t] = TerminateAck.status]
    /\ apiCalls' = apiCalls \cup {[method |-> "terminate_call_to_whatsapp", conn |-> None,
                                   call_id |-> termCall[t], action |-> "terminate",
                                   sdp |-> NoSdp]}
    /\ connStale' = TerminateCompleted(connStale, termCall[t], connPc, connCall)
    /\ UNCHANGED <<connVars, disconnects, termCall, termConn, taVars>>
    /\ UNCHANGED <<closedLog, auxVars>>

\* Lines 147-150: disconnect() has returned.
TerminateFinish(t) ==
    /\ termPc[t] = "disconnect"
    /\ ongoing_calls_map' = RegistryPop(ongoing_calls_map, termCall[t])
    /\ termPc' = [termPc EXCEPT ![t] = "returned"]
    /\ termResult' = [termResult EXCEPT ![t] = TerminateAck.status]
    /\ connStale' = TerminateCompleted(connStale, termCall[t], connPc, connCall)
    /\ UNCHANGED <<connVars, disconnects, apiCalls, termCall, termConn, taVars>>
    /\ UNCHANGED <<closedLog, auxVars>>

\* ---------------------------------------------------- terminate_all_calls
\* Lines 45-59.  On an empty map the method returns at line 49.  Otherwise
\* the first iteration of the loop evaluates
\* self._whatsapp_api.terminate_call_to_whatsapp, which class WhatsAppApi
\* does not define: AttributeError leaves the method before any task exists.
TerminateAllCalls ==
    /\ taPc # "gather"
    /\ taEntries' = Items(ongoing_calls_map)
    /\ taTasks' = {}
    /\ taDisconnected' = {}
    /\ taTerminated' = {}
    /\ taFailed' = {}
    /\ IF IsEmpty(ongoing_calls_map)
       THEN taPc' = "returned"
       ELSE /\ "terminate_call_to_whatsapp" \notin WhatsAppApiMethods
            /\ taPc' = "AttributeError"
    /\ UNCHANGED <<ongoing_calls_map, connVars, disconnects, apiCalls, termVars>>
    /\ UNCHANGED <<closedLog, connStale, auxVars>>

\* ------------------------------------------------------------------ Spec
Next ==
    \/ \E h \in Conns, c \in CallIds : ConnectStart(h, c)
    \/ \E h \in Conns : ConnectInitialized(h)
    \/ \E h \in Conns : ConnectInitFails(h)
    \/ \E h \in Conns, resp \in Responses : PreAcceptResponse(h, resp)
    \/ \E h \in Conns, resp \in Responses : AcceptResponse(h, resp)
    \/ \E h \in Conns : ConnectRaise(h)
    \/ \E h \in Conns : GatewayRaises(h)
    \/ \E t \in Terms, c \in CallIds : TerminateStart(t, c)
    \/ \E t \in Terms : TerminateFinish(t)
    \/ TerminateAllCalls

Spec == Init /\ [][Next]_vars

\* ------------------------------- with closure notifications and the history
RaceInit ==
    /\ ClientInit
    /\ connStale = [h \in Conns |-> FALSE]
    /\ SdpIdle
    /\ WebhookIdle

NextRace ==
    \/ Next
    \/ \E h \in Conns : PeerClosed(h)

SpecRace == RaceInit /\ [][NextRace]_vars

\* ------------------------- terminate_all_calls with the gateway's terminateCall
\* The Signaling Gateway's terminateCall(callId) of the design, which
\* client.py:59 calls as terminate_call_to_whatsapp: the request it posts.
TerminateCall(calls, c) ==
    calls \cup {[method |-> "terminate_call_to_whatsapp", conn |-> None,
                 call_id |-> c, action |-> "terminate", sdp |-> NoSdp]}

\* Lines 54-61: the tasks built from the items of the map, two per entry.
TerminationTasks(items) ==
    {<<"terminate_call_to_whatsapp", e[1], e[2]>> : e \in items}
        \cup {<<"disconnect", e[1], e[2]>> : e \in items}

\* Lines 45-64: up to the await of asyncio.gather.
TerminateAllStart ==
    /\ taPc # "gather"
    /\ taEntries' = Items(ongoing_calls_map)
    /\ taDisconnected' = {}
    /\ taTerminated' = {}
    /\ taFailed' = {}
    /\ IF IsEmpty(ongoing_calls_map)
       THEN /\ taPc' = "returned"
            /\ taTasks' = {}
       ELSE /\ taPc' = "gather"
            /\ taTasks' = TerminationTasks(Items(ongoing_calls_map))
    /\ UNCHANGED <<ongoing_calls_map, connVars, disconnects, apiCalls, termVars>>
    /\ UNCHANGED <<closedLog, connStale, auxVars>>

\* Line 64: one task of the gather runs; return_exceptions=True keeps an
\* exception of the provider call as a result.
TerminateAllTask(task, ok) ==
    /\ taPc = "gather"
    /\ task \in taTasks
    /\ taTasks' = taTasks \ {task}
    /\ IF task[1] = "disconnect"
       THEN /\ ok
            /\ disconnects' = Disconnect(disconnects, task[3])
            /\ taDisconnected' = taDisconnected \cup {task[3]}
            /\ UNCHANGED <<apiCalls, taTerminated, taFailed>>
       ELSE /\ apiCalls' = TerminateCall(apiCalls, task[2])
            /\ taTerminated' = taTerminated \cup {task[2]}
            /\ taFailed' = IF ok THEN taFailed ELSE taFailed \cup {task}
            /\ UNCHANGED <<disconnects, taDisconnected>>
    /\ UNCHANGED <<ongoing_calls_map, connVars, termVars, taPc, taEntries>>
    /\ UNCHANGED <<closedLog, connStale, auxVars>>

\* Lines 64-68: every task is done; the map is cleared.
TerminateAllFinish ==
    /\ taPc = "gather"
    /\ taTasks = {}
    /\ ongoing_calls_map' = RegistryClear(ongoing_calls_map)
    /\ taPc' = "returned"
    /\ UNCHANGED <<connVars, disconnects, apiCalls, termVars, taEntries,
                   taTasks, taDisconnected, taTerminated, taFailed>>
    /\ UNCHANGED <<closedLog, connStale, auxVars>>

AllTasks == {<<k, c, h>> : k \in {"terminate_call_to_whatsapp", "disconnect"},
                           c \in CallIds, h \in Conns}

NextGateway ==
    \/ \E h \in Conns, c \in CallIds : ConnectStart(h, c)
    \/ \E h \in Conns : ConnectInitialized(h)
    \/ \E h \in Conns : ConnectInitFails(h)
    \/ \E h \in Conns, resp \in Responses : PreAcceptResponse(h, resp)
    \/ \E h \in Conns, resp \in Responses : AcceptResponse(h, resp)
    \/ \E h \in Conns : ConnectRaise(h)
    \/ \E h \in Conns : GatewayRaises(h)
    \/ \E t \in Terms, c \in CallIds : TerminateStart(t, c)
    \/ \E t \in Terms : TerminateFinish(t)
    \/ TerminateAllStart
    \/ \E task \in AllTasks, ok \in BOOLEAN : TerminateAllTask(task, ok)
    \/ TerminateAllFinish

SpecGateway == Init /\ [][NextGateway]_vars

\* --------------------------------------- _filter_sdp_for_whatsapp, applied
SdpInit ==
    /\ ClientInit
    /\ HistoryOff
    /\ WebhookIdle
    /\ sdpLines \in SdpLineSeqs
    /\ sdpStyle \in SdpStyles
    /\ sdpIn = Serialize(sdpLines, sdpStyle)
    /\ sdpOut = NoSdp
    /\ sdpOut2 = NoSdp

\* The filter is called on the answer.
FilterSdp ==
    /\ sdpOut = NoSdp
    /\ sdpOut' = FilterSdpForWhatsapp(sdpIn)
    /\ UNCHANGED <<clientVars, wbVars, sdpLines, sdpStyle, sdpIn, sdpOut2>>

\* The filter is called on what it returned.
FilterSdpAgain ==
    /\ sdpOut # NoSdp
    /\ sdpOut2 = NoSdp
    /\ sdpOut2' = FilterSdpForWhatsapp(sdpOut)
    /\ UNCHANGED <<clientVars, wbVars, sdpLines, sdpStyle, sdpIn, sdpOut>>

NextSdp ==
    \/ FilterSdp
    \/ FilterSdpAgain

SpecSdp == SdpInit /\ [][NextSdp]_vars

\* ------------------------------------------------- handle_webhook_request
WebhookInit ==
    /\ ClientInit
    /\ HistoryOff
    /\ SdpIdle
    /\ wbRequest \in {ParseRequest(items) : items \in Payloads}
    /\ wbAt = <<1, 1, 1>>
    /\ wbExamined = {}
    /\ wbDispatched = <<>>
    /\ wbResult = "scanning"

\* The loop variables entry (line 72), change (line 73) and call (lines 76, 82).
Entries == wbRequest.entry
ChangesAt(e) == Entries[e].changes
ValueAt(e, c) == ChangesAt(e)[c].value
CallAt(e, c, k) == ValueAt(e, c).calls[k]

\* Mutant: the event alone decides, whatever the type of the value.
MatchesAnyValue(value, call) == call.event \in {"connect", "terminate"}

\* Lines 75-77 and 81-83: the call is the one to dispatch.
Matches(value, call) ==
    \/ value.type = "WhatsAppConnectCallValue" /\ call.event = "connect"
    \/ value.type = "WhatsAppTerminateCallValue" /\ call.event = "terminate"

\* Lines 75-78 and 81-84: the handler of the branch taken.
HandlerFor(value) ==
    IF value.type = "WhatsAppConnectCallValue" THEN "_handle_connect_event"
    ELSE "_handle_terminate_event"

\* Lines 76-78, 82-84: the inner loop looks at the next call of the change.
WebhookCall ==
    /\ wbResult = "scanning"
    /\ wbAt[1] <= Len(Entries)
    /\ wbAt[2] <= Len(ChangesAt(wbAt[1]))
    /\ wbAt[3] <= Len(ValueAt(wbAt[1], wbAt[2]).calls)
    /\ wbExamined' = wbExamined \cup {wbAt}
    /\ IF Matches(ValueAt(wbAt[1], wbAt[2]), CallAt(wbAt[1], wbAt[2], wbAt[3]))
       THEN /\ wbDispatched' = Append(wbDispatched,
                                      [handler |-> HandlerFor(ValueAt(wbAt[1], wbAt[2])),
                                       at |-> wbAt])
            /\ wbResult' = "returned"
            /\ UNCHANGED wbAt
       ELSE /\ wbAt' = <<wbAt[1], wbAt[2], wbAt[3] + 1>>
            /\ UNCHANGED <<wbDispatched, wbResult>>
    /\ UNCHANGED <<clientVars, sdpVars, wbRequest>>

\* Line 73: the calls of the change are exhausted, the next change.
WebhookNextChange ==
    /\ wbResult = "scanning"
    /\ wbAt[1] <= Len(Entries)
    /\ wbAt[2] <= Len(ChangesAt(wbAt[1]))
    /\ wbAt[3] > Len(ValueAt(wbAt[1], wbAt[2]).calls)
    /\ wbAt' = <<wbAt[1], wbAt[2] + 1, 1>>
    /\ UNCHANGED <<clientVars, sdpVars, wbRequest, wbExamined, wbDispatched, wbResult>>

\* Line 72: the changes of the entry are exhausted, the next entry.
WebhookNextEntry ==
    /\ wbResult = "scanning"
    /\ wbAt[1] <= Len(Entries)
    /\ wbAt[2] > Len(ChangesAt(wbAt[1]))
    /\ wbAt' = <<wbAt[1] + 1, 1, 1>>
    /\ UNCHANGED <<clientVars, sdpVars, wbRequest, wbExamined, wbDispatched, wbResult>>

\* Line 86: the entries are exhausted.
WebhookUnsupported ==
    /\ wbResult = "scanning"
    /\ wbAt[1] > Len(Entries)
    /\ wbResult' = "NotImplementedError"
    /\ UNCHANGED <<clientVars, sdpVars, wbRequest, wbAt, wbExamined, wbDispatched>>

NextWebhook ==
    \/ WebhookCall
    \/ WebhookNextChange
    \/ WebhookNextEntry
    \/ WebhookUnsupported

SpecWebhook == WebhookInit /\ [][NextWebhook]_vars

\* ======================================================================
\* Properties
\* ======================================================================
Ok == [success |-> TRUE]
ConnDone == {"returned", "raised_init", "raised_pre", "raised_accept", "raised_gateway"}
\* The handler got a response that does not indicate success.
Rejected(h) ==
    \/ preResp[h] \in Responses /\ preResp[h] # Ok
    \/ accResp[h] \in Responses /\ accResp[h] # Ok
\* A handler that has invoked disconnect() on s and has not yet removed the entry.
Disconnecting(s) ==
    \/ \E t \in Terms : termPc[t] = "disconnect" /\ termConn[t] = s
    \/ taPc = "gather" /\ s \in taDisconnected

\* C1: a connect handler whose pre_accept and accept both succeeded has
\* returned only if no entry for its call id existed when it started.  (That
\* its own entry is in the map when it returns is C1_EntryAfterReturn.)
C1_AbsentBeforehand ==
    \A h \in Conns :
        (connPc[h] = "returned" /\ preResp[h] = Ok /\ accResp[h] = Ok)
            => connBefore[h] = None

\* The half of C1 that holds: the step in which a connect handler returns
\* leaves its own connection registered under its call id.
C1_EntryAfterReturn ==
    [][\A h \in Conns :
        (connPc[h] # "returned" /\ connPc'[h] = "returned")
            => ongoing_calls_map'[connCall[h]] = h]_vars

\* C2, as claimed: once a connect handler that got a failing pre_accept or
\* accept response has finished, the map has no entry for its call id and
\* its connection was disconnected exactly once.
C2_NoEntryAfterFailure ==
    \A h \in Conns :
        (Rejected(h) /\ connPc[h] \in ConnDone)
            => /\ connPc[h] \in {"raised_pre", "raised_accept"}
               /\ ongoing_calls_map[connCall[h]] = None
               /\ disconnects[h] = 1

\* C2, amended: a connect handler that got a failing pre_accept or accept
\* response disconnects its connection exactly once and then raises, and its
\* connection is never entered in the map (an entry that another handler
\* registered for the same call id is left as it is).
C2_FailureNeverRegisters ==
    \A h \in Conns :
        Rejected(h)
            => /\ connPc[h] \in {"disconnect_pre", "disconnect_accept",
                                 "raised_pre", "raised_accept"}
               /\ \A c \in CallIds : ongoing_calls_map[c] # h
               /\ disconnects[h] = 1

C2_Witness ==
    \E h \in Conns :
        /\ connPc[h] = "raised_accept"
        /\ accResp[h] = [success |-> FALSE]
        /\ ongoing_calls_map[connCall[h]] \notin {None, h}

\* C3: the clean-up of an accepted call happens exactly once: no connection
\* that was registered has disconnect() invoked on it more than once.
C3_CleanedUpOnce ==
    \A h \in Conns : connPc[h] = "returned" => disconnects[h] <= 1

C5_NoSilentOverwrite ==
    [][\A c \in CallIds :
        (ongoing_calls_map[c] # None /\ disconnects[ongoing_calls_map[c]] = 0)
            => ongoing_calls_map'[c] \in {ongoing_calls_map[c], None}]_vars

C7_TerminatesEveryEntry ==
    taPc \in {"returned", "AttributeError"}
        => /\ taPc = "returned"
           /\ taTerminated = {e[1] : e \in taEntries}
           /\ Cardinality(taTerminated) = Cardinality(taEntries)
           /\ taDisconnected = {e[2] : e \in taEntries}

C9_RemovesWhatItDisconnected ==
    [][\A t \in Terms :
        (termPc[t] = "disconnect" /\ termPc'[t] = "returned")
            => /\ ongoing_calls_map[termCall[t]] = termConn[t]
               /\ ongoing_calls_map'[termCall[t]] = None
               /\ disconnects[termConn[t]] = 1
               /\ \A c \in CallIds \ {termCall[t]} :
                    ongoing_calls_map'[c] = ongoing_calls_map[c]]_vars

\* C10: a terminate handler whose call id is not in the map returns the
\* success acknowledgment in the same step, invokes no disconnect() and
\* leaves the map unchanged.
C10_UnknownCallIsNoOp ==
    [][\A t \in Terms :
        (termPc[t] = "idle" /\ termPc'[t] # "idle"
            /\ ongoing_calls_map[termCall'[t]] = None)
            => /\ termPc'[t] = "returned"
               /\ termResult'[t] = "success"
               /\ ongoing_calls_map' = ongoing_calls_map
               /\ disconnects' = disconnects]_vars

C10_Witness ==
    \E t \in Terms, c \in CallIds :
        /\ termPc[t] = "returned"
        /\ termConn[t] = None
        /\ termResult[t] = "success"
        /\ c # termCall[t]
        /\ ongoing_calls_map[c] # None
        /\ disconnects[ongoing_calls_map[c]] = 0

\* C11: a connect handler that a raising gateway call has left has
\* disconnected its connection exactly once and has registered nothing.
C11_RaiseIsRejection ==
    \A h \in Conns :
        connPc[h] = "raised_gateway"
            => /\ disconnects[h] = 1
               /\ \A c \in CallIds : ongoing_calls_map[c] # h

\* C12: a connect handler whose initialize() failed has issued no gateway
\* call, and the step in which it fails changes neither the map nor the
\* requests issued.
C12_InitFailureTouchesNothing ==
    [][\A h \in Conns :
        connPc'[h] = "raised_init"
            => /\ \A r \in apiCalls' : r.conn # h
               /\ \A c \in CallIds : ongoing_calls_map'[c] # h
               /\ connPc[h] # "raised_init"
                    => /\ ongoing_calls_map' = ongoing_calls_map
                       /\ apiCalls' = apiCalls]_vars

C12_Witness ==
    \E h \in Conns, c \in CallIds :
        /\ connPc[h] = "raised_init"
        /\ ongoing_calls_map[c] # None
        /\ connCall[h] = c

\* C14: no step of a terminate handler, whether its call id is in the map or
\* not, changes the set of requests issued to the gateway.
C14_TerminateIssuesNoCall ==
    [][\A t \in Terms : termPc'[t] # termPc[t] => apiCalls' = apiCalls]_vars

C14_Witness ==
    \E t \in Terms, u \in Terms :
        /\ termPc[t] = "returned" /\ termConn[t] # None
        /\ termPc[u] = "returned" /\ termConn[u] = None
        /\ apiCalls # {}

\* C18: every step that invokes disconnect() on a connection that was
\* registered is the first invocation on it, and the connection is still in
\* the map when it is invoked.
C18_NoDoubleRelease ==
    [][\A h \in Conns :
        (connPc[h] = "returned" /\ disconnects'[h] > disconnects[h])
            => /\ disconnects[h] = 0
               /\ \E c \in CallIds : ongoing_calls_map[c] = h]_vars

\* The lines of the answer that are not sha-384 or sha-512 fingerprint lines.
KeptLines(lines) ==
    SelectSeq(lines, LAMBDA l : l \notin {<<Fingerprint("sha-384")>>,
                                          <<Fingerprint("sha-512")>>})
EachCrlfTerminated == [sep |-> CRLF, trailing |-> TRUE]

\* C15, as claimed: for an answer whose lines are each terminated, the
\* filter returns the lines that are not sha-384 or sha-512 fingerprint
\* lines, in order, each terminated by CRLF.
C15_KeptLinesEachTerminated ==
    (sdpOut # NoSdp /\ sdpStyle.trailing)
        => sdpOut = Serialize(KeptLines(sdpLines), EachCrlfTerminated)

\* C15, amended: the filter returns those lines in order, joined by CRLF and
\* followed by one CRLF: each kept line terminated by CRLF when a line is
\* kept, and a single CRLF when none is.
C15_KeptLinesJoined ==
    (sdpOut # NoSdp /\ sdpStyle.trailing)
        => sdpOut = IF KeptLines(sdpLines) = <<>>
                    THEN CRLF
                    ELSE Serialize(KeptLines(sdpLines), EachCrlfTerminated)

C15_Witness ==
    /\ sdpOut # NoSdp
    /\ sdpStyle.trailing
    /\ sdpLines = <<<<Fingerprint("sha-256")>>, <<Fingerprint("sha-384")>>,
                    <<<<"v=0">>>>, <<Fingerprint("sha-512")>>>>
    /\ sdpOut = <<Fingerprint("sha-256"), CR, LF, <<"v=0">>, CR, LF>>

\* C16: filtering what the filter returned gives the same value, for every
\* answer, the empty one and those without a final terminator included.
C16_Idempotent ==
    sdpOut2 # NoSdp => sdpOut2 = sdpOut

C16_Witness ==
    /\ sdpOut2 # NoSdp
    /\ ~sdpStyle.trailing
    /\ sdpStyle.sep = <<LF>>
    /\ Len(sdpLines) = 3
    /\ sdpLines[2] = <<Fingerprint("sha-512")>>
    /\ sdpLines[3] = <<>>
    /\ sdpOut # sdpIn

\* C17: every accept request was preceded by the pre_accept request of the
\* same connect attempt, whose response indicated success, and carries the
\* same call id and the same filtered answer; after a pre_accept that did
\* not succeed the attempt has no accept request.
C17_HandshakeOrdered ==
    /\ \A r \in apiCalls :
          r.action = "accept" =>
              /\ preResp[r.conn] = Ok
              /\ \E p \in apiCalls : /\ p.action = "pre_accept"
                                     /\ p.conn = r.conn
                                     /\ p.call_id = r.call_id
                                     /\ p.sdp = r.sdp
              /\ r.sdp # NoSdp
              /\ \A i \in 1..Len(r.sdp) :
                    r.sdp[i][1] = "a=fingerprint:" => r.sdp[i][2] = "sha-256"
    /\ \A h \in Conns :
          preResp[h] \notin {NoResponse, Ok}
              => ~\E r \in apiCalls : r.conn = h /\ r.action = "accept"

C17_Witness ==
    /\ \E r \in apiCalls : r.action = "accept" /\ accResp[r.conn] = Ok
    /\ \E h \in Conns : connPc[h] = "raised_pre"

\* The step is one of the three that may change the map: a connect handler
\* registers the connection it created under its call id, a terminate
\* handler pops its call id, or terminate_all_calls clears the map.
ConnectAdds ==
    \E h \in Conns : /\ connPc[h] = "accept"
                     /\ connPc'[h] = "returned"
                     /\ ongoing_calls_map' = [ongoing_calls_map EXCEPT ![connCall[h]] = h]
TerminateRemoves ==
    \E t \in Terms : /\ termPc[t] = "disconnect"
                     /\ termPc'[t] = "returned"
                     /\ ongoing_calls_map' = [ongoing_calls_map EXCEPT ![termCall[t]] = None]
TerminateAllRemoves ==
    /\ taPc = "gather"
    /\ taPc' = "returned"
    /\ \A c \in CallIds : ongoing_calls_map'[c] = None

\* The map changes only by those three steps, and a closure notification
\* leaves it as it is.
OnlyThreeWriters ==
    /\ ongoing_calls_map' # ongoing_calls_map
          => ConnectAdds \/ TerminateRemoves \/ TerminateAllRemoves
    /\ closedLog' # closedLog => ongoing_calls_map' = ongoing_calls_map
RegistryFrame == [][OnlyThreeWriters]_vars

\* C19: the map changes only through a successful connect, which adds the
\* entry for its call id, terminate handling or terminate_all_calls, which
\* remove entries; a closure notification leaves it unchanged, and the entry
\* of a closed connection stays until terminate handling or
\* terminate_all_calls removes it.
C19_ClosedEntryStays ==
    [][/\ OnlyThreeWriters
       /\ \A c \in CallIds :
             (/\ ongoing_calls_map[c] \in closedLog
              /\ ongoing_calls_map'[c] # ongoing_calls_map[c])
                 => TerminateRemoves \/ TerminateAllRemoves]_vars

\* C20: after a terminate handler has completed for a call id, the map has
\* no entry for it until a connect handler that started after that is
\* accepted: an entry is never the connection of a handler that was in its
\* handshake when the terminate handler completed.
C20_NoEntryAfterTerminate ==
    \A c \in CallIds :
        ongoing_calls_map[c] # None => ~connStale[ongoing_calls_map[c]]

\* The calls of the request, by entry, change and call index, and their
\* order in the request.
CallPositions ==
    {p \in (1..MaxPayloadItems) \X (1..MaxPayloadItems) \X (1..MaxPayloadItems) :
        /\ p[1] <= Len(wbRequest.entry)
        /\ p[2] <= Len(wbRequest.entry[p[1]].changes)
        /\ p[3] <= Len(wbRequest.entry[p[1]].changes[p[2]].value.calls)}
Earlier(p, q) ==
    \/ p[1] < q[1]
    \/ p[1] = q[1] /\ p[2] < q[2]
    \/ p[1] = q[1] /\ p[2] = q[2] /\ p[3] < q[3]
\* The handler the call at p is for, "none" when its event is not the one
\* of its change's value.
Expected(p) ==
    LET value == wbRequest.entry[p[1]].changes[p[2]].value
        event == value.calls[p[3]].event
    IN  IF event = "connect" /\ value.type = "WhatsAppConnectCallValue"
        THEN "_handle_connect_event"
        ELSE IF event = "terminate" /\ value.type = "WhatsAppTerminateCallValue"
             THEN "_handle_terminate_event"
             ELSE "none"

\* C13: a request dispatches at most one handler; when it returns, it has
\* dispatched the first call in request order whose event is the one of its
\* change's value, to the handler for it, and has looked at no later call;
\* when no call of the request is such a call, it dispatches nothing and
\* ends with the unsupported-event error, and only then.
C13_FirstMatchDispatched ==
    /\ Len(wbDispatched) <= 1
    /\ wbResult = "scanning" => wbDispatched = <<>>
    /\ wbResult = "returned" =>
          /\ Len(wbDispatched) = 1
          /\ wbDispatched[1].at \in CallPositions
          /\ Expected(wbDispatched[1].at) # "none"
          /\ wbDispatched[1].handler = Expected(wbDispatched[1].at)
          /\ \A q \in CallPositions :
                Earlier(q, wbDispatched[1].at) => Expected(q) = "none"
          /\ \A q \in wbExamined : ~Earlier(wbDispatched[1].at, q)
    /\ wbResult = "NotImplementedError" =>
          /\ wbDispatched = <<>>
          /\ \A q \in CallPositions : Expected(q) = "none"

C13_Witness ==
    /\ wbResult = "returned"
    /\ wbDispatched[1].at = <<2, 1, 2>>
    /\ <<2, 1, 1>> \in wbExamined
    /\ \E q \in CallPositions : Earlier(wbDispatched[1].at, q) /\ Expected(q) # "none"

====
